---- MODULE Spec2Model ----
(***************************************************************************)
(* Model of meshparty/vtk.py: numpy_rep_to_vtk, graph_to_vtk,              *)
(* trimesh_to_vtk and calculate_cross_sections.                            *)
(*                                                                         *)
(* A 64-bit integer v is the pair <<hi, lo>> with v = hi * 2^26 + lo and   *)
(* 0 <= lo < 2^26, so that values around 2^53 (where float64 stops being   *)
(* exact) and 2^31 (the 32-bit vtkIdType range) can be written.            *)
(***************************************************************************)
EXTENDS Integers, Sequences, FiniteSets, TLC

\* ------------------------------------------------------------------ bounds
MaxM == 1        \* rows of an index array handed to the converters
MaxN == 2        \* vertices handed to the converters
MaxEdges == 3    \* rows of graph_edges handed to calculate_cross_sections

\* ------------------------------------------------------------ int64 values
Base == 2^26

I64(n) == <<n \div Base, n % Base>>

I64Leq(a, b) == a[1] < b[1] \/ (a[1] = b[1] /\ a[2] <= b[2])

I64Lt(a, b) == a[1] < b[1] \/ (a[1] = b[1] /\ a[2] < b[2])

Two53 == <<2^27, 0>>

NegTwo53 == <<-(2^27), 0>>

\* 2^53 + 1, the smallest positive integer float64 cannot hold
Big == <<2^27, 1>>

I32Min == <<-32, 0>>

I32Max == <<31, Base - 1>>

\* int64 -> float64 as np.hstack promotes it (round to nearest, ties to even);
\* written for |v| < 2^54, where the float spacing is 1 or 2.
F64(v) ==
    IF I64Leq(NegTwo53, v) /\ I64Leq(v, Two53) THEN v
    ELSE IF v[2] % 2 = 0 THEN v
    ELSE IF v[2] % 4 = 1 THEN <<v[1], v[2] - 1>>
    ELSE IF v[2] + 1 = Base THEN <<v[1] + 1, 0>>
    ELSE <<v[1], v[2] + 1>>

\* what a float -> int32 cast of an out-of-range value may give (C leaves it
\* undefined: x86 yields INT_MIN, saturating hardware INT_MAX/INT_MIN)
UBOutcomes == {I32Min, I32Max}

\* ndarray.astype(req_dtype) of an integral float64
AsType(f, isize, ub) ==
    IF isize = 8 THEN f
    ELSE IF I64Leq(I32Min, f) /\ I64Leq(f, I32Max) THEN f
    ELSE ub

\* ------------------------------------------------------------------ arrays
\* a 2-D index array of shape (M, K): cols = K, rows = the M rows in order
Cols == {1, 2, 3}

IdxVals == {I64(i) : i \in -1 .. MaxN}

RowsOf(K, vals) == UNION {[1 .. M -> [1 .. K -> vals]] : M \in 0 .. MaxM}

ArraysOver(vals) ==
    UNION {{[cols |-> K, rows |-> r] : r \in RowsOf(K, vals)} : K \in Cols}

\* the index arrays handed to graph_to_vtk and trimesh_to_vtk
Arrays == ArraysOver(IdxVals)

\* the index arrays handed to numpy_rep_to_vtk, which validates nothing
ConvArrays == ArraysOver({I64(-1), I64(0), I64(MaxN), Big})

\* an (N, 3) vertex array: N distinct points
Vertex(i) == <<i, 2 * i, 0>>

Verts(N) == [i \in 1 .. N |-> Vertex(i)]

VertexArrays == {Verts(N) : N \in 0 .. MaxN}

\* all entries of an array, row-major (ndarray.ravel)
RECURSIVE Ravel(_)
Ravel(rows) ==
    IF rows = <<>> THEN <<>> ELSE Head(rows) \o Ravel(Tail(rows))

Entries(a) == {a.rows[i][j] : i \in 1 .. Len(a.rows), j \in 1 .. a.cols}

\* np.max over a non-empty array
NpMax(a) ==
    CHOOSE x \in Entries(a) : \A y \in Entries(a) : I64Leq(y, x)

\* ---------------------------------------------------------------- polydata
NoCells == [n |-> 0, conn |-> <<>>]

NoPolyData == [points |-> <<>>, lines |-> NoCells, polys |-> NoCells]

\* one row of np.hstack((np.ones(n_tris)[:, None] * ndim, shapes)): the float
\* count followed by the row promoted to float64
HStackRow(ndim, row) ==
    <<F64(I64(ndim))>> \o [j \in 1 .. Len(row) |-> F64(row[j])]

\* the flat connectivity: hstack, astype(req_dtype), ravel
Connectivity(shapes, isize, ub) ==
    LET ndim == shapes.cols
        stacked == [i \in 1 .. Len(shapes.rows) |->
                        HStackRow(ndim, shapes.rows[i])]
        flat == Ravel(stacked)
    IN  [p \in 1 .. Len(flat) |-> AsType(flat[p], isize, ub)]

numpy_rep_to_vtk(vertices, shapes, isize, ub) ==
    LET n_tris == Len(shapes.rows)
        mesh == [points |-> vertices, lines |-> NoCells, polys |-> NoCells]
        cells == [n |-> n_tris, conn |-> Connectivity(shapes, isize, ub)]
    IN  [mesh |-> mesh, cells |-> cells]

\* ----------------------------------------------------------------- results
Raise(exc, line) ==
    [tag |-> "raise", exc |-> exc, at |-> line, value |-> NoPolyData]

Return(v) == [tag |-> "return", exc |-> "", at |-> 0, value |-> v]

NoResult == [tag |-> "none", exc |-> "", at |-> 0, value |-> NoPolyData]

\* graph_to_vtk with the range check ahead of the column check
graph_to_vtk_RangeFirst(vertices, edges, isize, ub) ==
    IF Entries(edges) = {} THEN Raise("ValueError", 60)
    ELSE IF I64Leq(I64(Len(vertices)), NpMax(edges))
        THEN Raise("ValueError", 62)
    ELSE IF edges.cols # 2 THEN Raise("ValueError", 59)
    ELSE LET r == numpy_rep_to_vtk(vertices, edges, isize, ub)
         IN  Return([r.mesh EXCEPT !.lines = r.cells])

\* graph_to_vtk comparing with > where the code has >=
graph_to_vtk_OffByOne(vertices, edges, isize, ub) ==
    IF edges.cols # 2 THEN Raise("ValueError", 59)
    ELSE IF Entries(edges) = {} THEN Raise("ValueError", 60)
    ELSE IF I64Lt(I64(Len(vertices)), NpMax(edges))
        THEN Raise("ValueError", 62)
    ELSE LET r == numpy_rep_to_vtk(vertices, edges, isize, ub)
         IN  Return([r.mesh EXCEPT !.lines = r.cells])

graph_to_vtk(vertices, edges, isize, ub) ==
    IF edges.cols # 2 THEN Raise("ValueError", 59)
    ELSE IF Entries(edges) = {} THEN Raise("ValueError", 60)
    ELSE IF I64Leq(I64(Len(vertices)), NpMax(edges))
        THEN Raise("ValueError", 62)
    ELSE LET r == numpy_rep_to_vtk(vertices, edges, isize, ub)
         IN  Return([r.mesh EXCEPT !.lines = r.cells])

\* trimesh_to_vtk with the range check ahead of the column check
trimesh_to_vtk_RangeFirst(vertices, tris, isize, ub) ==
    IF Entries(tris) = {} THEN Raise("ValueError", 87)
    ELSE IF I64Leq(I64(Len(vertices)), NpMax(tris))
        THEN Raise("ValueError", 89)
    ELSE IF tris.cols # 3 THEN Raise("ValueError", 86)
    ELSE LET r == numpy_rep_to_vtk(vertices, tris, isize, ub)
         IN  Return([r.mesh EXCEPT !.polys = r.cells])

\* trimesh_to_vtk comparing with > where the code has >=
trimesh_to_vtk_OffByOne(vertices, tris, isize, ub) ==
    IF tris.cols # 3 THEN Raise("ValueError", 86)
    ELSE IF Entries(tris) = {} THEN Raise("ValueError", 87)
    ELSE IF I64Lt(I64(Len(vertices)), NpMax(tris))
        THEN Raise("ValueError", 89)
    ELSE LET r == numpy_rep_to_vtk(vertices, tris, isize, ub)
         IN  Return([r.mesh EXCEPT !.polys = r.cells])

trimesh_to_vtk(vertices, tris, isize, ub) ==
    IF tris.cols # 3 THEN Raise("ValueError", 86)
    ELSE IF Entries(tris) = {} THEN Raise("ValueError", 87)
    ELSE IF I64Leq(I64(Len(vertices)), NpMax(tris))
        THEN Raise("ValueError", 89)
    ELSE LET r == numpy_rep_to_vtk(vertices, tris, isize, ub)
         IN  Return([r.mesh EXCEPT !.polys = r.cells])

\* ------------------------------------------------------------ numpy bits
Abs(x) == IF x < 0 THEN -x ELSE x

RECURSIVE Gcd(_, _)
Gcd(a, b) == IF b = 0 THEN a ELSE Gcd(b, a % b)

\* a unit vector: nan when the vector has no direction, else the direction
\* d (the integer vector divided by the gcd of its components)
NaNVec == [nan |-> TRUE, d |-> <<0, 0, 0>>]

\* d / np.linalg.norm(d): 0/0 gives nan in every component
Unit(d) ==
    LET g == Gcd(Gcd(Abs(d[1]), Abs(d[2])), Abs(d[3]))
    IN  IF g = 0 THEN NaNVec
        ELSE [nan |-> FALSE, d |-> <<d[1] \div g, d[2] \div g, d[3] \div g>>]

\* numpy indexing a[i] with a 0-based i: negative i counts from the end
InRange(a, i) == -Len(a) <= i /\ i < Len(a)

NpIndex(a, i) == IF i < 0 THEN a[Len(a) + i + 1] ELSE a[i + 1]

Sub(p, q) == <<p[1] - q[1], p[2] - q[2], p[3] - q[3]>>

\* ------------------------------------------------------------ vtk pipeline
\* The library's objects live in w.objs (an object's id is its position) and
\* w.clock is the global modification time.  An object holds its settings
\* (cfg), its input (src: a connection to a filter or a data object), the
\* time it last executed and the data it produced.  Data are symbolic: a cut
\* remembers the mesh, the plane and the filters it went through.
NoPoint == <<0, 0, 0>>

NoGeom ==
    [mesh |-> NoPolyData, normal |-> NaNVec, origin |-> NoPoint,
     closest |-> NoPoint, via |-> <<>>]

\* the 0.0 np.zeros fills cross_sections with
ZeroArea == [NoGeom EXCEPT !.via = <<"zero">>]

DefaultCfg ==
    [normal |-> [nan |-> FALSE, d |-> <<0, 0, 1>>], origin |-> NoPoint,
     closest |-> NoPoint, plane |-> 0, mode |-> "", join |-> FALSE]

\* w.scope says where the program is when an object is made: -1 before the
\* loop of calculate_cross_sections, k in its iteration k
EmptyWorld == [objs |-> <<>>, clock |-> 0, scope |-> -1]

NextId(w) == Len(w.objs) + 1

\* vtk.vtkX(): a new object, stamped with a new modification time
NewObject(w, kind) ==
    [w EXCEPT !.objs = Append(@,
                [kind |-> kind, born |-> w.scope, mtime |-> w.clock + 1,
                 exec |-> 0, src |-> 0, srcKind |-> "none",
                 cfg |-> DefaultCfg, out |-> NoGeom, piece |-> 0]),
              !.clock = @ + 1]

Modified(w, id) ==
    [w EXCEPT !.objs[id].mtime = w.clock + 1, !.clock = @ + 1]

\* SetInputData / SetInputConnection: nothing happens when the input is the
\* one already set
SetInput(w, id, kind, src) ==
    IF w.objs[id].srcKind = kind /\ w.objs[id].src = src THEN w
    ELSE Modified([w EXCEPT !.objs[id].srcKind = kind,
                            !.objs[id].src = src], id)

SetInputData(w, id, data) == SetInput(w, id, "data", data)

SetInputConnection(w, id, up) == SetInput(w, id, "conn", up)

SetPlane(w, id, plane) ==
    IF w.objs[id].cfg.plane = plane THEN w
    ELSE Modified([w EXCEPT !.objs[id].cfg.plane = plane], id)

\* vtkSetVector3Macro: set and Modified() when a component differs (nan
\* differs from everything)
SetNormal(w, id, n) ==
    IF ~n.nan /\ w.objs[id].cfg.normal = n THEN w
    ELSE Modified([w EXCEPT !.objs[id].cfg.normal = n], id)

SetOrigin(w, id, p) ==
    IF w.objs[id].cfg.origin = p THEN w
    ELSE Modified([w EXCEPT !.objs[id].cfg.origin = p], id)

SetClosestPoint(w, id, p) ==
    IF w.objs[id].cfg.closest = p THEN w
    ELSE Modified([w EXCEPT !.objs[id].cfg.closest = p], id)

SetExtractionModeToClosestPointRegion(w, id) ==
    IF w.objs[id].cfg.mode = "ClosestPointRegion" THEN w
    ELSE Modified([w EXCEPT !.objs[id].cfg.mode = "ClosestPointRegion"], id)

JoinContiguousSegmentsOn(w, id) ==
    IF w.objs[id].cfg.join THEN w
    ELSE Modified([w EXCEPT !.objs[id].cfg.join = TRUE], id)

\* the data a filter currently offers on its output
Output(w, id) ==
    LET o == w.objs[id]
    IN  IF o.kind = "vtkPlaneCutter"
        THEN (IF o.piece = 0 THEN NoGeom ELSE w.objs[o.piece].out)
        ELSE o.out

InputData(w, id) ==
    LET o == w.objs[id]
    IN  IF o.srcKind = "conn" THEN Output(w, o.src)
        ELSE IF o.srcKind = "data" THEN w.objs[o.src].out
        ELSE NoGeom

\* when the input last changed
InputTime(w, id) ==
    LET o == w.objs[id]
    IN  IF o.srcKind = "conn" THEN w.objs[o.src].exec
        ELSE IF o.srcKind = "data" THEN w.objs[o.src].mtime
        ELSE 0

\* a filter's GetMTime: vtkPlaneCutter's includes its plane's
FilterMTime(w, id) ==
    LET o == w.objs[id]
    IN  IF o.kind = "vtkPlaneCutter" /\ o.cfg.plane # 0
            /\ w.objs[o.cfg.plane].mtime > o.mtime
        THEN w.objs[o.cfg.plane].mtime
        ELSE o.mtime

NeedsExecute(w, id) ==
    /\ w.objs[id].srcKind # "none"
    /\ \/ FilterMTime(w, id) > w.objs[id].exec
       \/ InputTime(w, id) > w.objs[id].exec

\* what a filter computes from its input and its settings
Compute(w, id) ==
    LET o == w.objs[id]
        in == InputData(w, id)
    IN  CASE o.kind = "vtkPlaneCutter" ->
                [mesh |-> in, normal |-> w.objs[o.cfg.plane].cfg.normal,
                 origin |-> w.objs[o.cfg.plane].cfg.origin,
                 closest |-> NoPoint, via |-> <<"cut">>]
          [] o.kind = "vtkCleanPolyData" ->
                [in EXCEPT !.via = Append(@, "clean")]
          [] o.kind = "vtkPolyDataConnectivityFilter" ->
                [in EXCEPT !.closest = o.cfg.closest,
                           !.via = Append(@, "region")]
          [] o.kind = "vtkStripper" -> [in EXCEPT !.via = Append(@, "strip")]
          [] o.kind = "vtkTriangleFilter" ->
                [in EXCEPT !.via = Append(@, "tri")]
          [] o.kind = "vtkMassProperties" ->
                [in EXCEPT !.via = Append(@, "area")]

\* RequestData: the output is rebuilt and stamped.  The plane cutter's piece
\* is either a new data object or the old one rewritten (fresh), as the
\* library version has it.
Execute(w, id, fresh) ==
    LET o == w.objs[id]
        data == Compute(w, id)
        stamp == w.clock + 1
    IN  IF o.kind # "vtkPlaneCutter"
        THEN [w EXCEPT !.objs[id].out = data, !.objs[id].exec = stamp,
                       !.clock = stamp]
        ELSE IF o.piece = 0 \/ fresh
        THEN LET pid == NextId(w)
             IN  [NewObject(w, "vtkPolyData") EXCEPT
                        !.objs[pid].out = data, !.objs[pid].mtime = stamp,
                        !.objs[id].piece = pid, !.objs[id].exec = stamp,
                        !.clock = stamp]
        ELSE [w EXCEPT !.objs[o.piece].out = data,
                       !.objs[o.piece].mtime = stamp,
                       !.objs[id].exec = stamp, !.clock = stamp]

\* Update(): bring the upstream filters up to date, then execute if the
\* settings or the input are newer than the last execution
RECURSIVE Update(_, _, _)
Update(w, id, fresh) ==
    LET o == w.objs[id]
        w1 == IF o.srcKind = "conn" THEN Update(w, o.src, fresh) ELSE w
    IN  IF NeedsExecute(w1, id) THEN Execute(w1, id, fresh) ELSE w1

GetSurfaceArea(w, id) == w.objs[id].out

\* ------------------------------------------- calculate_cross_sections
\* the meshes handed to calculate_cross_sections: MaxN vertices and no face
\* or one face <<c, 0, ...>> of 2 or 3 corners
FaceRow(K, c) == [j \in 1 .. K |-> IF j = 1 THEN I64(c) ELSE I64(0)]

CrossFaces ==
    UNION {{[cols |-> K, rows |-> <<>>]} \cup
           {[cols |-> K, rows |-> <<FaceRow(K, c)>>] : c \in {-1, 0, MaxN}} :
           K \in {2, 3}}

CrossMeshes == {[vertices |-> Verts(MaxN), faces |-> f] : f \in CrossFaces}

GraphVertsSet ==
    {<<<<0, 0, 0>>, <<2, 0, 0>>>>, <<<<1, 1, 0>>, <<1, 4, 4>>>>}

GraphIdx == 0 .. 2

GraphEdgeArrays == UNION {[1 .. M -> [1 .. 2 -> GraphIdx]] : M \in 0 .. MaxEdges}

EdgesValid(gv, ge) ==
    \A i \in 1 .. Len(ge) : \A j \in 1 .. 2 : InRange(gv, ge[i][j])

\* lines 116-117: the unit vectors of graph_verts[e0] - graph_verts[e1]
Dvs(gv, ge) ==
    [i \in 1 .. Len(ge) |->
        Unit(Sub(NpIndex(gv, ge[i][1]), NpIndex(gv, ge[i][2])))]

\* lines 100-115: the objects made before the loop
Setup(poly) ==
    LET w0 == EmptyWorld
        mp == NextId(w0)
        w1 == [NewObject(w0, "vtkPolyData") EXCEPT !.objs[mp].out = poly]
        cu == NextId(w1)
        w2 == SetInputData(NewObject(w1, "vtkPlaneCutter"), cu, mp)
        pl == NextId(w2)
        w3 == NewObject(w2, "vtkPlane")
        cdi == NextId(w3)
        w4 == NewObject(w3, "vtkCleanPolyData")
        cfi == NextId(w4)
        w5 == SetExtractionModeToClosestPointRegion(
                SetInputConnection(
                    NewObject(w4, "vtkPolyDataConnectivityFilter"),
                    cfi, cdi), cfi)
        w6 == SetPlane(w5, cu, pl)
        cs == NextId(w6)
        w7 == SetInputConnection(
                JoinContiguousSegmentsOn(NewObject(w6, "vtkStripper"), cs),
                cs, cfi)
        mf == NextId(w7)
        w8 == SetInputConnection(NewObject(w7, "vtkMassProperties"), mf, cu)
        tf == NextId(w8)
        w9 == NewObject(w8, "vtkTriangleFilter")
    IN  [w |-> w9, mesh_polydata |-> mp, cutter |-> cu, plane |-> pl,
         cd |-> cdi, cf |-> cfi, cutStrips |-> cs, massfilter |-> mf,
         t |-> tf]

\* ------------------------------------------------------------------- state
VARIABLES
    pc,             \* where the caller / calculate_cross_sections stands
    isize,          \* vtkIdTypeArray().GetDataTypeSize() of the build
    call,           \* the function called and its array arguments
    ret,            \* what the call raised or returned
    vtk,            \* the library's objects
    mesh_polydata, cutter, plane, cd, cf, cutStrips, massfilter, t,
    cutPoly, pd,    \* locals of calculate_cross_sections (object ids, 0 unset)
    graph_verts, graph_edges, dvs, k, dv, v,
    cross_sections,
    writes          \* the writes to cross_sections: index and value, in order

callVars == <<call, ret>>

objVars ==
    <<mesh_polydata, cutter, plane, cd, cf, cutStrips, massfilter, t,
      cutPoly, pd>>

loopVars == <<graph_verts, graph_edges, dvs, k, dv, v>>

crossVars == <<vtk, objVars, loopVars, cross_sections, writes>>

vars == <<pc, isize, callVars, crossVars>>

NoCall == [fn |-> "", vertices |-> <<>>, shapes |-> [cols |-> 0, rows |-> <<>>]]

Init ==
    /\ pc = "idle"
    /\ isize \in {4, 8}
    /\ call = NoCall
    /\ ret = NoResult
    /\ vtk = EmptyWorld
    /\ mesh_polydata = 0 /\ cutter = 0 /\ plane = 0 /\ cd = 0 /\ cf = 0
    /\ cutStrips = 0 /\ massfilter = 0 /\ t = 0 /\ cutPoly = 0 /\ pd = 0
    /\ graph_verts = <<>> /\ graph_edges = <<>> /\ dvs = <<>>
    /\ k = -1 /\ dv = NaNVec /\ v = NoPoint
    /\ cross_sections = <<>>
    /\ writes = <<>>

PcOf(r) == IF r.tag = "raise" THEN "raised" ELSE "returned"

CallNumpyRepToVtk ==
    /\ pc = "idle"
    /\ \E vertices \in VertexArrays, shapes \in ConvArrays, ub \in UBOutcomes :
        LET r == numpy_rep_to_vtk(vertices, shapes, isize, ub)
        IN  /\ call' = [fn |-> "numpy_rep_to_vtk", vertices |-> vertices,
                        shapes |-> shapes]
            /\ ret' = Return([r.mesh EXCEPT !.lines = r.cells])
            /\ pc' = "returned"
    /\ UNCHANGED <<isize, crossVars>>

CallGraphToVtk ==
    /\ pc = "idle"
    /\ \E vertices \in VertexArrays, edges \in Arrays, ub \in UBOutcomes :
        /\ call' = [fn |-> "graph_to_vtk", vertices |-> vertices,
                    shapes |-> edges]
        /\ ret' = graph_to_vtk(vertices, edges, isize, ub)
        /\ pc' = PcOf(ret')
    /\ UNCHANGED <<isize, crossVars>>

CallTrimeshToVtk ==
    /\ pc = "idle"
    /\ \E vertices \in VertexArrays, tris \in Arrays, ub \in UBOutcomes :
        /\ call' = [fn |-> "trimesh_to_vtk", vertices |-> vertices,
                    shapes |-> tris]
        /\ ret' = trimesh_to_vtk(vertices, tris, isize, ub)
        /\ pc' = PcOf(ret')
    /\ UNCHANGED <<isize, crossVars>>

\* lines 98-117: trimesh_to_vtk, the filters, cross_sections, dvs
CrossStart ==
    /\ pc = "idle"
    /\ \E mesh \in CrossMeshes, gv \in GraphVertsSet,
          ge \in GraphEdgeArrays, ub \in UBOutcomes :
        LET r == trimesh_to_vtk(mesh.vertices, mesh.faces, isize, ub)
            s == Setup(r.value)
        IN  /\ call' = [fn |-> "calculate_cross_sections",
                        vertices |-> mesh.vertices, shapes |-> mesh.faces]
            /\ graph_verts' = gv
            /\ graph_edges' = ge
            /\ IF r.tag = "raise"
               THEN /\ ret' = r
                    /\ pc' = "raised"
                    /\ UNCHANGED <<vtk, objVars, dvs, cross_sections>>
               ELSE /\ vtk' = s.w
                    /\ mesh_polydata' = s.mesh_polydata
                    /\ cutter' = s.cutter
                    /\ plane' = s.plane
                    /\ cd' = s.cd
                    /\ cf' = s.cf
                    /\ cutStrips' = s.cutStrips
                    /\ massfilter' = s.massfilter
                    /\ t' = s.t
                    /\ UNCHANGED <<cutPoly, pd>>
                    /\ cross_sections' = [i \in 1 .. Len(ge) |-> ZeroArea]
                    /\ IF EdgesValid(gv, ge)
                       THEN /\ dvs' = Dvs(gv, ge)
                            /\ ret' = NoResult
                            /\ pc' = "for"
                       ELSE /\ dvs' = dvs
                            /\ ret' = Raise("IndexError", 116)
                            /\ pc' = "raised"
    /\ UNCHANGED <<isize, k, dv, v, writes>>

\* line 118: the next edge, or line 147: return cross_sections
ForEdge ==
    /\ pc = "for"
    /\ IF k + 1 < Len(graph_edges)
       THEN /\ k' = k + 1
            /\ vtk' = [vtk EXCEPT !.scope = k + 1]
            /\ pc' = "L119"
            /\ UNCHANGED ret
       ELSE /\ pc' = "returned"
            /\ ret' = Return(NoPolyData)
            /\ UNCHANGED <<k, vtk>>
    /\ UNCHANGED <<isize, call, objVars, graph_verts, graph_edges, dvs, dv, v,
                   cross_sections, writes>>

\* lines 119-126: dv, v, plane.SetNormal, plane.SetOrigin
SetPlaneStep ==
    /\ pc = "L119"
    /\ dv' = dvs[k + 1]
    /\ v' = NpIndex(graph_verts, graph_edges[k + 1][1])
    /\ vtk' = SetOrigin(SetNormal(vtk, plane, dv'), plane, v')
    /\ pc' = "L128"
    /\ UNCHANGED <<isize, callVars, objVars, graph_verts, graph_edges, dvs, k,
                   cross_sections, writes>>

\* lines 128-129: cutter.Update(); pd = the cutter's output piece
CutterUpdateStep ==
    /\ pc = "L128"
    /\ \E fresh \in BOOLEAN :
        /\ vtk' = Update(vtk, cutter, fresh)
        /\ pd' = vtk'.objs[cutter].piece
    /\ pc' = "L131"
    /\ UNCHANGED <<isize, callVars, mesh_polydata, cutter, plane, cd, cf,
                   cutStrips, massfilter, t, cutPoly, loopVars,
                   cross_sections, writes>>

\* StripsStep without cf.SetClosestPoint(*v): the closest point of an
\* earlier edge stays in the filter
StripsStep_NoClosestPoint ==
    /\ pc = "L131"
    /\ vtk' = Update(SetInputData(vtk, cd, pd), cutStrips, FALSE)
    /\ pc' = "L135"
    /\ UNCHANGED <<isize, callVars, objVars, loopVars, cross_sections, writes>>

\* lines 131-133: cd.SetInputData(pd); cf.SetClosestPoint(*v);
\* cutStrips.Update()
StripsStep ==
    /\ pc = "L131"
    /\ vtk' = Update(SetClosestPoint(SetInputData(vtk, cd, pd), cf, v),
                     cutStrips, FALSE)
    /\ pc' = "L135"
    /\ UNCHANGED <<isize, callVars, objVars, loopVars, cross_sections, writes>>

\* lines 135-137: cutPoly takes the points and lines of the strips
CutPolyStep ==
    /\ pc = "L135"
    /\ LET id == NextId(vtk)
           w1 == NewObject(vtk, "vtkPolyData")
           strips == Output(w1, cutStrips)
       IN  /\ cutPoly' = id
           /\ vtk' = Modified([w1 EXCEPT !.objs[id].out =
                                [strips EXCEPT !.via = Append(@, "poly")]],
                              id)
    /\ pc' = "L139"
    /\ UNCHANGED <<isize, callVars, mesh_polydata, cutter, plane, cd, cf,
                   cutStrips, massfilter, t, pd, loopVars, cross_sections,
                   writes>>

\* MassStep storing the area one entry too low
MassStep_WrongEntry ==
    /\ pc = "L139"
    /\ LET w1 == SetInputData(vtk, t, cutPoly)
           mf == NextId(w1)
           w2 == SetInputConnection(NewObject(w1, "vtkMassProperties"), mf, t)
           w3 == Update(w2, mf, FALSE)
       IN  /\ massfilter' = mf
           /\ vtk' = w3
           /\ cross_sections' =
                [cross_sections EXCEPT ![IF k = 0 THEN Len(cross_sections)
                                         ELSE k] = GetSurfaceArea(w3, mf)]
           /\ writes' = Append(writes, [k |-> k,
                                        area |-> GetSurfaceArea(w3, mf)])
    /\ pc' = "for"
    /\ UNCHANGED <<isize, callVars, mesh_polydata, cutter, plane, cd, cf,
                   cutStrips, t, cutPoly, pd, loopVars>>

\* MassStep keeping the vtkMassProperties made before the loop: it is only
\* connected to t and updated
MassStep_ReusedFilter ==
    /\ pc = "L139"
    /\ LET w1 == SetInputData(vtk, t, cutPoly)
           w2 == SetInputConnection(w1, massfilter, t)
           w3 == Update(w2, massfilter, FALSE)
       IN  /\ massfilter' = massfilter
           /\ vtk' = w3
           /\ cross_sections' =
                [cross_sections EXCEPT ![k + 1] =
                                            GetSurfaceArea(w3, massfilter)]
    /\ writes' = Append(writes, [k |-> k, area |-> cross_sections'[k + 1]])
    /\ pc' = "for"
    /\ UNCHANGED <<isize, callVars, mesh_polydata, cutter, plane, cd, cf,
                   cutStrips, t, cutPoly, pd, loopVars>>

\* lines 139-145: t.SetInputData(cutPoly); a new vtkMassProperties on t;
\* Update; cross_sections[k] = its surface area
MassStep ==
    /\ pc = "L139"
    /\ LET w1 == SetInputData(vtk, t, cutPoly)
           mf == NextId(w1)
           w2 == SetInputConnection(NewObject(w1, "vtkMassProperties"), mf, t)
           w3 == Update(w2, mf, FALSE)
       IN  /\ massfilter' = mf
           /\ vtk' = w3
           /\ cross_sections' =
                [cross_sections EXCEPT ![k + 1] = GetSurfaceArea(w3, mf)]
    /\ writes' = Append(writes, [k |-> k, area |-> cross_sections'[k + 1]])
    /\ pc' = "for"
    /\ UNCHANGED <<isize, callVars, mesh_polydata, cutter, plane, cd, cf,
                   cutStrips, t, cutPoly, pd, loopVars>>

Next ==
    \/ CallNumpyRepToVtk
    \/ CallGraphToVtk
    \/ CallTrimeshToVtk
    \/ CrossStart
    \/ ForEdge
    \/ SetPlaneStep
    \/ CutterUpdateStep
    \/ StripsStep
    \/ CutPolyStep
    \/ MassStep

Spec == Init /\ [][Next]_vars

\* ------------------------------------------------------------------ claims
NVerts == Len(call.vertices)

Shapes == call.shapes

Finished == pc \in {"returned", "raised"}

\* some index of the array is >= N
HasIndexAtLeastN == \E x \in Entries(Shapes) : I64Leq(I64(NVerts), x)

\* some index of the array is below 0
HasNegativeIndex == \E x \in Entries(Shapes) : I64Lt(x, I64(0))

RaisedValueErrorAt(line) ==
    /\ pc = "raised"
    /\ ret.tag = "raise"
    /\ ret.exc = "ValueError"
    /\ ret.at = line
    /\ ret.value = NoPolyData

\* C1: graph_to_vtk raises ValueError for every (M, K) edges array with
\* K # 2, from the column check of line 59 also when indices are out of
\* range, and returns no polydata.
C1_ColumnsRejected ==
    (call.fn = "graph_to_vtk" /\ Shapes.cols # 2) => RaisedValueErrorAt(59)

C1_Witness ==
    /\ call.fn = "graph_to_vtk"
    /\ Shapes.cols # 2
    /\ HasIndexAtLeastN
    /\ RaisedValueErrorAt(59)

\* C2: graph_to_vtk with an (M, 2) array raises ValueError when some index is
\* >= N; a largest index of N is rejected, a largest index of N-1 is not.
C2_RangeRejected ==
    /\ (call.fn = "graph_to_vtk" /\ Shapes.cols = 2 /\ HasIndexAtLeastN)
            => RaisedValueErrorAt(62)
    /\ (call.fn = "graph_to_vtk" /\ Shapes.cols = 2 /\ Entries(Shapes) # {}
            /\ NpMax(Shapes) = I64(NVerts - 1))
            => (pc = "returned" /\ ret.tag = "return")

C2_Witness ==
    /\ call.fn = "graph_to_vtk"
    /\ Shapes.cols = 2
    /\ Len(Shapes.rows) > 0
    /\ NpMax(Shapes) = I64(NVerts)
    /\ RaisedValueErrorAt(62)

\* C3: trimesh_to_vtk raises ValueError for every (M, K) tris array with
\* K # 3, from the column check of line 86, ahead of the range check and of
\* any polydata.
C3_ColumnsRejected ==
    (call.fn = "trimesh_to_vtk" /\ Shapes.cols # 3) => RaisedValueErrorAt(86)

C3_Witness ==
    /\ call.fn = "trimesh_to_vtk"
    /\ Shapes.cols # 3
    /\ HasIndexAtLeastN
    /\ RaisedValueErrorAt(86)

\* C4: trimesh_to_vtk with an (M, 3) array raises ValueError when some index
\* is >= N, and calculate_cross_sections then raises the same error with no
\* filter made, no plane set and no area written.
C4_RangeRejected ==
    /\ (call.fn = "trimesh_to_vtk" /\ Shapes.cols = 3 /\ HasIndexAtLeastN)
            => RaisedValueErrorAt(89)
    /\ (call.fn = "calculate_cross_sections" /\ Shapes.cols = 3
            /\ HasIndexAtLeastN)
            => /\ RaisedValueErrorAt(89)
               /\ vtk = EmptyWorld
               /\ plane = 0
               /\ cross_sections = <<>>
               /\ writes = <<>>

C4_Witness ==
    /\ call.fn = "calculate_cross_sections"
    /\ Shapes.cols = 3
    /\ HasIndexAtLeastN
    /\ Len(graph_edges) > 0
    /\ RaisedValueErrorAt(89)

\* the point indices of a cell array whose cells have K points
CellIndices(cells, K) ==
    {cells.conn[p] : p \in {q \in 1 .. Len(cells.conn) : q % (K + 1) # 1}}

IsPoint(x) == I64Leq(I64(0), x) /\ I64Lt(x, I64(NVerts))

\* C5: graph_to_vtk and trimesh_to_vtk raise ValueError when some index lies
\* outside 0..N-1, negative indices included, and never return a polydata
\* with a cell on a point that does not exist.
C5_OutOfBoundsRejected ==
    call.fn \in {"graph_to_vtk", "trimesh_to_vtk"} =>
        /\ (HasIndexAtLeastN \/ HasNegativeIndex)
                => (ret.tag = "raise" /\ ret.exc = "ValueError")
        /\ ret.tag = "return" =>
                \A x \in CellIndices(ret.value.lines, 2) \cup
                         CellIndices(ret.value.polys, 3) : IsPoint(x)

WantedCols == IF call.fn = "graph_to_vtk" THEN 2 ELSE 3

\* C6: graph_to_vtk and trimesh_to_vtk raise ValueError exactly when the
\* column count is wrong or some index is >= N; on every other input, zero
\* rows included, they return a polydata.
C6_OnlyTwoFailures ==
    call.fn \in {"graph_to_vtk", "trimesh_to_vtk"} =>
        /\ ret.tag = "raise" <=>
                (Shapes.cols # WantedCols \/ HasIndexAtLeastN)
        /\ ~(Shapes.cols # WantedCols \/ HasIndexAtLeastN)
                => (pc = "returned" /\ ret.tag = "return")

InCross == call.fn = "calculate_cross_sections"

LoopPcs == {"for", "L119", "L128", "L131", "L135", "L139"}

NEdges == Len(graph_edges)

\* C7: calculate_cross_sections returns len(graph_edges) entries, entry k the
\* area measured in iteration k; the iterations are 0..M-1 in order, each
\* writes its own entry once and no other, and with M = 0 nothing is cut.
C7_OneEntryPerEdge ==
    (InCross /\ (pc \in LoopPcs \/ pc = "returned")) =>
        /\ Len(cross_sections) = NEdges
        /\ Len(writes) <= NEdges
        /\ \A i \in 1 .. Len(writes) :
                writes[i].k = i - 1 /\ cross_sections[i] = writes[i].area
        /\ \A i \in Len(writes) + 1 .. NEdges : cross_sections[i] = ZeroArea
        /\ Len(writes) = (IF pc \in {"for", "returned"} THEN k + 1 ELSE k)
        /\ pc = "returned" => Len(writes) = NEdges
        /\ (pc = "returned" /\ NEdges = 0) => vtk.objs[cutter].exec = 0

C7_Witness ==
    /\ InCross
    /\ pc = "returned"
    /\ NEdges >= 2
    /\ Len(writes) = NEdges

ObjectsOf(kind) ==
    {i \in 1 .. Len(vtk.objs) : vtk.objs[i].kind = kind}

FilterKinds ==
    {"vtkPlaneCutter", "vtkCleanPolyData", "vtkPolyDataConnectivityFilter",
     "vtkStripper", "vtkTriangleFilter", "vtkMassProperties"}

\* C8 as stated: massfilter, cutter, cd and cf are each one instance made
\* before the loop, and no filter object is made inside the loop.
C8_NoFilterMadeInLoop ==
    InCross =>
        \A i \in 1 .. Len(vtk.objs) :
            vtk.objs[i].kind \in FilterKinds => vtk.objs[i].born = -1

OneBeforeLoop(id, kind) ==
    /\ ObjectsOf(kind) = {id}
    /\ vtk.objs[id].born = -1

\* C8 amended: cutter, cd and cf (and plane, cutStrips, t) are each one
\* instance made before the loop and used in every iteration; massfilter is
\* not: every iteration makes a new vtkMassProperties, and the one made
\* before the loop is never updated.
C8_FiltersReusedButMass ==
    (InCross /\ cutter # 0) =>
        /\ OneBeforeLoop(cutter, "vtkPlaneCutter")
        /\ OneBeforeLoop(cd, "vtkCleanPolyData")
        /\ OneBeforeLoop(cf, "vtkPolyDataConnectivityFilter")
        /\ OneBeforeLoop(plane, "vtkPlane")
        /\ OneBeforeLoop(cutStrips, "vtkStripper")
        /\ OneBeforeLoop(t, "vtkTriangleFilter")
        /\ Cardinality(ObjectsOf("vtkMassProperties")) = 1 + Len(writes)
        /\ \A i \in ObjectsOf("vtkMassProperties") :
                vtk.objs[i].born = -1 => vtk.objs[i].exec = 0
        /\ Len(writes) > 0 =>
                /\ vtk.objs[massfilter].born = Len(writes) - 1
                /\ vtk.objs[massfilter].exec > 0

C8_Witness ==
    /\ InCross
    /\ pc = "returned"
    /\ Len(writes) >= 2
    /\ vtk.objs[massfilter].born = 1

\* what edge i (1-based) asks for
EdgeNormal(i) ==
    Unit(Sub(NpIndex(graph_verts, graph_edges[i][1]),
             NpIndex(graph_verts, graph_edges[i][2])))

EdgeOrigin(i) == NpIndex(graph_verts, graph_edges[i][1])

ExpectedCut(i) ==
    [mesh |-> vtk.objs[mesh_polydata].out, normal |-> EdgeNormal(i),
     origin |-> EdgeOrigin(i), closest |-> NoPoint, via |-> <<"cut">>]

ExpectedStrips(i) ==
    [ExpectedCut(i) EXCEPT !.closest = EdgeOrigin(i),
                           !.via = <<"cut", "clean", "region", "strip">>]

ExpectedPoly(i) == [ExpectedStrips(i) EXCEPT !.via = Append(@, "poly")]

ExpectedArea(i) ==
    [ExpectedStrips(i) EXCEPT
        !.via = <<"cut", "clean", "region", "strip", "poly", "tri", "area">>]

C10_CellsAreTheRows ==
    (call.fn = "numpy_rep_to_vtk" /\ pc = "returned" /\ isize = 8) =>
        LET K == Shapes.cols
            M == Len(Shapes.rows)
            conn == ret.value.lines.conn
        IN  /\ ret.value.lines.n = M
            /\ Len(conn) = M * (K + 1)
            /\ \A i \in 1 .. M :
                /\ conn[(i - 1) * (K + 1) + 1] = I64(K)
                /\ \A j \in 1 .. K :
                        conn[(i - 1) * (K + 1) + 1 + j] = Shapes.rows[i][j]
            /\ ret.value.points = call.vertices

====
